---- MODULE Spec2Model ----
(***************************************************************************)
(* Invoice processor: the extraction-to-table pipeline.                    *)
(*                                                                         *)
(*   app/document_processor.py  entity list -> intermediate record         *)
(*   app/data_processor.py      record -> cleaned rows, summary statistics *)
(*   app/main.py                batch of uploaded files -> session table   *)
(*   app/export_manager.py      table -> file in one of three formats      *)
(*                                                                         *)
(* Text is a sequence of one-character strings, so that stripping, casing  *)
(* and parsing are computed character by character.  A Python dict is a    *)
(* function whose DOMAIN is the set of keys present.  A DataFrame is the   *)
(* sequence of its rows (records keyed by column name); the empty          *)
(* DataFrame is << >>.                                                     *)
(***************************************************************************)
EXTENDS Integers, Sequences, FiniteSets, TLC

VARIABLES
    pc,                     \* position of the running handler ("idle": no run yet, or the
                            \* last run was not a batch; "loop": inside _process_files;
                            \* "done": the run of a batch has ended)
    input,                  \* argument of the call under study (pure-function specifications)
    output,                 \* its return value
    uploaded_files,         \* _process_files: the batch given to the handler
    file_idx,               \* _process_files: number of loop iterations done
    all_data,               \* _process_files: local list of per-file frames
    errors,                 \* _process_files: file names reported with st.error
    session_processed_data, \* st.session_state.processed_data
    processing_history,     \* st.session_state.processing_history
    dp_processed_data,      \* DataProcessor.processed_data (None or a frame)
    clock,                  \* datetime.now(), advanced by every reading
    batches,                \* number of "Process Files" clicks so far
    uploads,                \* number of files handed to _process_files so far
    fs,                     \* files under settings.EXPORT_DIR: path -> content
    calls                   \* SpecProcessor: the process_invoice_data calls made so far on
                            \* the DataProcessor under study, each with its argument and
                            \* the frame it returned

vars == <<pc, input, output, uploaded_files, file_idx, all_data, errors,
          session_processed_data, processing_history, dp_processed_data,
          clock, batches, uploads, fs, calls>>

pipeline_vars == <<uploaded_files, file_idx, all_data, errors,
                   session_processed_data, processing_history, batches, uploads>>

(***************************************************************************)
(* Bounds of the model.                                                    *)
(***************************************************************************)
MaxLen == 3          \* longest raw numeric text drawn exhaustively
MaxEntities == 3     \* longest entity list drawn exhaustively
MaxItems == 2        \* most line items in a drawn record
MaxUploads == 4      \* most files handed to "Process Files" in one session
MaxCalls == 3        \* most process_invoice_data calls on one DataProcessor

(***************************************************************************)
(* Text helpers (Python str methods used by the code).                     *)
(***************************************************************************)
LowerLetters == <<"a","b","c","d","e","f","g","h","i","j","k","l","m",
                  "n","o","p","q","r","s","t","u","v","w","x","y","z">>
UpperLetters == <<"A","B","C","D","E","F","G","H","I","J","K","L","M",
                  "N","O","P","Q","R","S","T","U","V","W","X","Y","Z">>
Digits == <<"0","1","2","3","4","5","6","7","8","9">>
Whitespace == {" ", "\t", "\n"}

Range(s) == {s[i] : i \in DOMAIN s}
LowerSet == Range(LowerLetters)
UpperSet == Range(UpperLetters)
DigitSet == Range(Digits)
IsLower(c) == c \in LowerSet
IsUpper(c) == c \in UpperSet
IsLetter(c) == IsLower(c) \/ IsUpper(c)
IsDigit(c) == c \in DigitSet
IndexIn(s, c) == CHOOSE i \in DOMAIN s : s[i] = c

upper_char(c) == IF IsLower(c) THEN UpperLetters[IndexIn(LowerLetters, c)] ELSE c
lower_char(c) == IF IsUpper(c) THEN LowerLetters[IndexIn(UpperLetters, c)] ELSE c

\* str.upper() / str.lower()
str_upper(s) == [i \in DOMAIN s |-> upper_char(s[i])]
str_lower(s) == [i \in DOMAIN s |-> lower_char(s[i])]

\* str.strip(): drop leading and trailing whitespace
RECURSIVE lstrip(_)
lstrip(s) == IF s # << >> /\ Head(s) \in Whitespace THEN lstrip(Tail(s)) ELSE s
RECURSIVE rstrip(_)
rstrip(s) ==
    IF s # << >> /\ s[Len(s)] \in Whitespace THEN rstrip(SubSeq(s, 1, Len(s) - 1)) ELSE s
str_strip(s) == rstrip(lstrip(s))

\* str.title(): a letter that follows a non-letter (or starts the text) is
\* upper-cased, every other letter lower-cased
str_title(s) ==
    [i \in DOMAIN s |->
        IF i = 1 \/ ~IsLetter(s[i - 1]) THEN upper_char(s[i]) ELSE lower_char(s[i])]

\* the sequences over S of length at most n
SeqsUpTo(S, n) == UNION {[1..k -> S] : k \in 0..n}

\* dict.get(key, default)
dict_get(d, k, default) == IF k \in DOMAIN d THEN d[k] ELSE default

(***************************************************************************)
(* Missing values.  None / NaN in a text column is the one-element         *)
(* sequence None, which no text equals (text elements are single           *)
(* characters).                                                            *)
(***************************************************************************)
None == <<"None">>
isna(v) == v = None

(***************************************************************************)
(* Floating-point values.  A float read from a decimal text is kept as     *)
(* the exact decimal num / 10^scale with trailing zeros of the fraction    *)
(* removed, so that 20.00 and 20.0 are the same value.  NaN is the float   *)
(* with scale -1.                                                          *)
(***************************************************************************)
NaN == [num |-> 0, scale |-> -1]
RECURSIVE Pow10(_)
Pow10(k) == IF k = 0 THEN 1 ELSE 10 * Pow10(k - 1)
RECURSIVE DecNorm(_)
DecNorm(d) ==
    IF d.scale > 0 /\ d.num % 10 = 0
    THEN DecNorm([num |-> d.num \div 10, scale |-> d.scale - 1])
    ELSE d
Dec(n, k) == DecNorm([num |-> n, scale |-> k])
Zero == Dec(0, 0)

DigitVal(c) == IndexIn(Digits, c) - 1
RECURSIVE DigitsVal(_)
DigitsVal(s) ==
    IF s = << >> THEN 0 ELSE 10 * DigitsVal(SubSeq(s, 1, Len(s) - 1)) + DigitVal(s[Len(s)])

\* float(text) for a text of digits and dots: ParsesAsFloat says whether
\* Python accepts it (at most one dot, at least one digit), FloatOf its value
CountOf(s, c) == Cardinality({i \in DOMAIN s : s[i] = c})
ParsesAsFloat(s) ==
    /\ \A i \in DOMAIN s : IsDigit(s[i]) \/ s[i] = "."
    /\ CountOf(s, ".") <= 1
    /\ \E i \in DOMAIN s : IsDigit(s[i])
FloatOf(s) ==
    LET fraction_len == IF CountOf(s, ".") = 0 THEN 0 ELSE Len(s) - IndexIn(s, ".")
    IN  Dec(DigitsVal(SelectSeq(s, IsDigit)), fraction_len)

(***************************************************************************)
(* Dates.  A Timestamp is [year, month, day]; NaT is the null date.        *)
(* pd.to_datetime(text, errors='coerce') is modelled on ISO calendar       *)
(* dates YYYY-MM-DD, which it parses, and on texts that are no date in     *)
(* any format, which it coerces to NaT.  RawDates below holds only such    *)
(* texts.                                                                  *)
(***************************************************************************)
NaT == [year |-> 0, month |-> 0, day |-> 0]
IsLeap(y) == (y % 4 = 0 /\ y % 100 # 0) \/ y % 400 = 0
DaysIn(y, m) ==
    IF m = 2 THEN (IF IsLeap(y) THEN 29 ELSE 28)
    ELSE IF m \in {4, 6, 9, 11} THEN 30 ELSE 31
IsIsoShape(s) ==
    /\ Len(s) = 10
    /\ s[5] = "-" /\ s[8] = "-"
    /\ \A i \in {1, 2, 3, 4, 6, 7, 9, 10} : IsDigit(s[i])
\* faulty variant: a text that is no date becomes a fixed "today" instead of NaT
to_datetime_default_today(s) ==
    IF isna(s) \/ ~IsIsoShape(s) THEN [year |-> 2026, month |-> 11, day |-> 1]
    ELSE LET y == DigitsVal(SubSeq(s, 1, 4))
             m == DigitsVal(SubSeq(s, 6, 7))
             d == DigitsVal(SubSeq(s, 9, 10))
         IN  IF y >= 1 /\ m \in 1..12 /\ d \in 1..DaysIn(y, m)
             THEN [year |-> y, month |-> m, day |-> d]
             ELSE [year |-> 2026, month |-> 11, day |-> 1]

to_datetime(s) ==
    IF isna(s) \/ ~IsIsoShape(s) THEN NaT
    ELSE LET y == DigitsVal(SubSeq(s, 1, 4))
             m == DigitsVal(SubSeq(s, 6, 7))
             d == DigitsVal(SubSeq(s, 9, 10))
         IN  IF y >= 1 /\ m \in 1..12 /\ d \in 1..DaysIn(y, m)
             THEN [year |-> y, month |-> m, day |-> d]
             ELSE NaT

(***************************************************************************)
(* app/data_processor.py                                                   *)
(***************************************************************************)
\* re.sub(r'[^\d.,]', '', s): delete what is not a digit, '.' or ','
IsNumericChar(c) == IsDigit(c) \/ c = "." \/ c = ","
re_sub_non_numeric(s) == SelectSeq(s, IsNumericChar)
\* s.replace(',', '')
IsNotComma(c) == c # ","
replace_comma(s) == SelectSeq(s, IsNotComma)

\* faulty variant: ',' read as a decimal separator instead of being deleted
comma_to_dot(s) == [i \in DOMAIN s |-> IF s[i] = "," THEN "." ELSE s[i]]
_extract_numeric_comma_decimal(value) ==
    IF isna(value) \/ value = << >> THEN Zero
    ELSE LET numeric_str == comma_to_dot(re_sub_non_numeric(value))
         IN  IF ParsesAsFloat(numeric_str) THEN FloatOf(numeric_str) ELSE Zero

_extract_numeric(value) ==
    IF isna(value) \/ value = << >> THEN Zero
    ELSE LET numeric_str == replace_comma(re_sub_non_numeric(value))
         IN  IF ParsesAsFloat(numeric_str) THEN FloatOf(numeric_str) ELSE Zero

numeric_columns == {"quantity", "unit_price", "total_price"}
\* faulty variant: the invoice id cleaned like a text column
text_columns_with_invoice_id == {"description", "vendor_name", "invoice_id"}
text_columns == {"description", "vendor_name"}

\* Series.str.strip().str.title(): a missing value stays missing
clean_text(v) == IF isna(v) THEN None ELSE str_title(str_strip(v))

clean_cell(col, v) ==
    IF col \in numeric_columns THEN _extract_numeric(v)
    ELSE IF col \in text_columns THEN clean_text(v)
    ELSE IF col = "invoice_date" THEN to_datetime(v)
    ELSE v

\* every step is guarded by "if col in df.columns": a column that is absent
\* stays absent
_clean_data(df) ==
    [i \in DOMAIN df |-> [col \in DOMAIN df[i] |-> clean_cell(col, df[i][col])]]

\* pd.DataFrame(list of dicts): the columns are the union of the keys, a key
\* a dict lacks is a missing value in its row
DataFrame(dicts) ==
    LET columns == UNION {DOMAIN dicts[i] : i \in DOMAIN dicts}
    IN  [i \in DOMAIN dicts |-> [col \in columns |-> dict_get(dicts[i], col, None)]]

\* df[col] = scalar: the scalar in every row
assign_column(df, col, v) ==
    [i \in DOMAIN df |->
        [c \in DOMAIN df[i] \cup {col} |-> IF c = col THEN v ELSE df[i][c]]]

\* the frame process_invoice_data returns when read at instant now
process_invoice_data(invoice_data, now) ==
    LET line_items == dict_get(invoice_data, "line_items", << >>)
    IN  IF line_items = << >> THEN << >>
        ELSE LET df0 == DataFrame(line_items)
                 df1 == assign_column(df0, "invoice_id",
                            dict_get(dict_get(invoice_data, "invoice_details", << >>),
                                     "invoice_id", << >>))
                 df2 == assign_column(df1, "vendor_name",
                            dict_get(dict_get(invoice_data, "vendor_info", << >>),
                                     "name", << >>))
                 df3 == assign_column(df2, "invoice_date",
                            dict_get(dict_get(invoice_data, "invoice_details", << >>),
                                     "date", << >>))
                 df4 == assign_column(df3, "processed_timestamp", now)
             IN  _clean_data(df4)

\* faulty variant: the new rows are added below the rows already stored
stored_after_appending(invoice_data, now, stored) ==
    IF dict_get(invoice_data, "line_items", << >>) = << >> THEN stored
    ELSE IF stored = <<None>> THEN process_invoice_data(invoice_data, now)
    ELSE stored \o process_invoice_data(invoice_data, now)

\* self.processed_data after the call: set only past the early return
stored_after(invoice_data, now, stored) ==
    IF dict_get(invoice_data, "line_items", << >>) = << >> THEN stored
    ELSE process_invoice_data(invoice_data, now)

(***************************************************************************)
(* app/document_processor.py                                               *)
(* An entity is [type_, mention_text, properties]; a property is           *)
(* [type_, mention_text]; a document is [text, entities].                  *)
(***************************************************************************)
\* d[k] = v on a dict
dict_set(d, k, v) == [x \in DOMAIN d \cup {k} |-> IF x = k THEN v ELSE d[x]]

\* the body of the property loop: one property written into the line item
apply_property(line_item, prop) ==
    IF prop.type_ = "line_item/description"
    THEN [line_item EXCEPT !.description = prop.mention_text]
    ELSE IF prop.type_ = "line_item/quantity"
    THEN [line_item EXCEPT !.quantity = prop.mention_text]
    ELSE IF prop.type_ = "line_item/unit_price"
    THEN [line_item EXCEPT !.unit_price = prop.mention_text]
    ELSE IF prop.type_ = "line_item/amount"
    THEN [line_item EXCEPT !.total_price = prop.mention_text]
    ELSE line_item

RECURSIVE apply_properties(_, _)
apply_properties(line_item, props) ==
    IF props = << >> THEN line_item
    ELSE apply_properties(apply_property(line_item, Head(props)), Tail(props))

\* faulty variant: the line item starts as an empty dict, so a field exists
\* only when a property of its type occurs
_parse_line_item_without_defaults(entity) ==
    LET full == apply_properties(
                    [description |-> << >>, quantity |-> << >>, unit_price |-> << >>,
                     total_price |-> << >>],
                    entity.properties)
        seen == {entity.properties[i].type_ : i \in DOMAIN entity.properties}
        key_of == [description |-> "line_item/description",
                   quantity |-> "line_item/quantity",
                   unit_price |-> "line_item/unit_price",
                   total_price |-> "line_item/amount"]
    IN  [f \in {g \in DOMAIN key_of : key_of[g] \in seen} |-> full[f]]

_parse_line_item(entity) ==
    apply_properties(
        [description |-> << >>, quantity |-> << >>, unit_price |-> << >>,
         total_price |-> << >>],
        entity.properties)

\* faulty variant: the first occurrence of a top-level field is kept (setdefault)
dict_setdefault(d, k, v) == IF k \in DOMAIN d THEN d ELSE dict_set(d, k, v)
set_field_first_wins(invoice_data, section, key, text) ==
    [invoice_data EXCEPT ![section] = dict_setdefault(@, key, text)]

\* invoice_data[section][key] = text
set_field(invoice_data, section, key, text) ==
    [invoice_data EXCEPT ![section] = dict_set(@, key, text)]

\* faulty variant: the last branch is a plain else, so an entity of any
\* other type is parsed as a line item
apply_entity_else_line_item(invoice_data, entity) ==
    IF entity.type_ = "supplier_name"
    THEN set_field(invoice_data, "vendor_info", "name", entity.mention_text)
    ELSE IF entity.type_ = "supplier_address"
    THEN set_field(invoice_data, "vendor_info", "address", entity.mention_text)
    ELSE IF entity.type_ = "invoice_id"
    THEN set_field(invoice_data, "invoice_details", "invoice_id", entity.mention_text)
    ELSE IF entity.type_ = "invoice_date"
    THEN set_field(invoice_data, "invoice_details", "date", entity.mention_text)
    ELSE IF entity.type_ = "total_amount"
    THEN set_field(invoice_data, "totals", "total", entity.mention_text)
    ELSE [invoice_data EXCEPT !.line_items = Append(@, _parse_line_item(entity))]

\* the body of the entity loop: one entity written into the record
apply_entity(invoice_data, entity) ==
    IF entity.type_ = "supplier_name"
    THEN set_field(invoice_data, "vendor_info", "name", entity.mention_text)
    ELSE IF entity.type_ = "supplier_address"
    THEN set_field(invoice_data, "vendor_info", "address", entity.mention_text)
    ELSE IF entity.type_ = "invoice_id"
    THEN set_field(invoice_data, "invoice_details", "invoice_id", entity.mention_text)
    ELSE IF entity.type_ = "invoice_date"
    THEN set_field(invoice_data, "invoice_details", "date", entity.mention_text)
    ELSE IF entity.type_ = "total_amount"
    THEN set_field(invoice_data, "totals", "total", entity.mention_text)
    ELSE IF entity.type_ = "line_item"
    THEN [invoice_data EXCEPT !.line_items = Append(@, _parse_line_item(entity))]
    ELSE invoice_data

RECURSIVE apply_entities(_, _)
apply_entities(invoice_data, entities) ==
    IF entities = << >> THEN invoice_data
    ELSE apply_entities(apply_entity(invoice_data, Head(entities)), Tail(entities))

_extract_invoice_data(document) ==
    apply_entities(
        [vendor_info |-> << >>, invoice_details |-> << >>, line_items |-> << >>,
         totals |-> << >>, raw_text |-> document.text],
        document.entities)

(***************************************************************************)
(* Aggregates of app/data_processor.py, get_summary_statistics.            *)
(***************************************************************************)
Max(a, b) == IF a >= b THEN a ELSE b
DecAdd(a, b) ==
    LET k == Max(a.scale, b.scale)
    IN  Dec(a.num * Pow10(k - a.scale) + b.num * Pow10(k - b.scale), k)

\* Series.sum() of a numeric column
RECURSIVE column_sum(_, _)
column_sum(df, col) ==
    IF df = << >> THEN Zero
    ELSE DecAdd(df[1][col], column_sum(Tail(df), col))

\* Series.mean(): the exact quotient sum / count, kept as the pair
column_mean(df, col) == [sum |-> column_sum(df, col), count |-> Len(df)]

\* Series.nunique()
column_nunique(df, col) == Cardinality({df[i][col] : i \in DOMAIN df})

\* Series.min() / Series.max() of a date column: NaT is skipped, and is the
\* result when nothing else is there
DateLeq(a, b) ==
    \/ a.year < b.year
    \/ a.year = b.year /\ a.month < b.month
    \/ a.year = b.year /\ a.month = b.month /\ a.day <= b.day
column_dates(df, col) == {df[i][col] : i \in DOMAIN df} \ {NaT}
column_min(df, col) ==
    IF column_dates(df, col) = {} THEN NaT
    ELSE CHOOSE d \in column_dates(df, col) : \A e \in column_dates(df, col) : DateLeq(d, e)
column_max(df, col) ==
    IF column_dates(df, col) = {} THEN NaT
    ELSE CHOOSE d \in column_dates(df, col) : \A e \in column_dates(df, col) : DateLeq(e, d)

\* get_summary_statistics reads self.processed_data; {} is << >>
get_summary_statistics(processed_data) ==
    IF processed_data = <<None>> \/ processed_data = << >> THEN << >>
    ELSE [total_items |-> Len(processed_data),
          total_amount |-> column_sum(processed_data, "total_price"),
          average_item_price |-> column_mean(processed_data, "total_price"),
          unique_vendors |-> column_nunique(processed_data, "vendor_name"),
          date_range |-> [start |-> column_min(processed_data, "invoice_date"),
                          end |-> column_max(processed_data, "invoice_date")]]

(***************************************************************************)
(* app/main.py helpers.                                                    *)
(***************************************************************************)
\* faulty variant: the list of frames concatenated latest first
RECURSIVE pd_concat_reversed(_)
pd_concat_reversed(frames) ==
    IF frames = << >> THEN << >> ELSE pd_concat_reversed(Tail(frames)) \o Head(frames)

\* pd.concat(frames, ignore_index=True)
RECURSIVE pd_concat(_)
pd_concat(frames) ==
    IF frames = << >> THEN << >> ELSE Head(frames) \o pd_concat(Tail(frames))

(***************************************************************************)
(* Initial state shared by every specification: a fresh session.           *)
(*   InvoiceProcessorApp.__init__  session table empty, history empty      *)
(*   DataProcessor.__init__        processed_data = None                   *)
(* The frame slot of DataProcessor holds << None >> for Python's None.     *)
(***************************************************************************)
NoFrame == <<None>>

InitSession ==
    /\ output = << >>
    /\ uploaded_files = << >>
    /\ file_idx = 0
    /\ all_data = << >>
    /\ errors = << >>
    /\ session_processed_data = << >>
    /\ processing_history = << >>
    /\ dp_processed_data = NoFrame
    /\ clock = 0
    /\ batches = 0
    /\ uploads = 0
    /\ fs = << >>
    /\ calls = << >>

(***************************************************************************)
(* SpecNumeric: _clean_data on a one-row frame whose numeric column        *)
(* `column` holds the raw text `value`, for every raw text up to MaxLen    *)
(* over NumericAlphabet and for the texts of NumericExamples.              *)
(***************************************************************************)
NumericAlphabet == {"0", "1", "5", ".", ",", "$", "-"}
Text_1234_56 == <<"$", "1", ",", "2", "3", "4", ".", "5", "6">>
Text_NA == <<"N", "/", "A">>
Text_20_00 == <<"2", "0", ".", "0", "0">>
Text_1_2_3 == <<"1", ".", "2", ".", "3">>
NumericExamples == {Text_1234_56, Text_NA, Text_20_00, Text_1_2_3, None}
NumericTexts == SeqsUpTo(NumericAlphabet, MaxLen) \cup NumericExamples

\* the raw row around the column under study
RawRow(column, value) ==
    [col \in {"description", "quantity", "unit_price", "total_price", "invoice_id",
              "vendor_name", "invoice_date", "processed_timestamp"} |->
        IF col = column THEN value
        ELSE IF col = "processed_timestamp" THEN 0
        ELSE IF col \in numeric_columns THEN <<"1">>
        ELSE << >>]

InitNumeric ==
    /\ InitSession
    /\ pc = "called"
    /\ input \in [column : numeric_columns, value : NumericTexts]

CleanNumericColumn ==
    /\ pc = "called"
    /\ pc' = "returned"
    /\ output' = _clean_data(<<RawRow(input.column, input.value)>>)
    /\ UNCHANGED <<input, pipeline_vars, dp_processed_data, clock, fs, calls>>

NextNumeric == CleanNumericColumn
SpecNumeric == InitNumeric /\ [][NextNumeric]_vars

(***************************************************************************)
(* C6.  The claim's own reading of numeric coercion, computed without the  *)
(* model's operators: walk the text once keeping digits and dots (what is  *)
(* left after deleting every character that is not a digit, '.' or ',' and *)
(* then every ','), split the remainder at its dot, and weigh the integer  *)
(* and fraction digits.                                                    *)
(***************************************************************************)
RECURSIVE C6_Remainder(_)
C6_Remainder(s) ==
    IF s = << >> THEN << >>
    ELSE IF Head(s) \in {"0","1","2","3","4","5","6","7","8","9","."}
         THEN <<Head(s)>> \o C6_Remainder(Tail(s))
         ELSE C6_Remainder(Tail(s))
C6_Dots(r) == {i \in DOMAIN r : r[i] = "."}
C6_IsDecimal(r) == Cardinality(C6_Dots(r)) <= 1 /\ Len(r) > Cardinality(C6_Dots(r))
C6_Value(r) ==
    LET dot == IF C6_Dots(r) = {} THEN Len(r) + 1 ELSE CHOOSE i \in C6_Dots(r) : TRUE
        int_part == SubSeq(r, 1, dot - 1)
        frac_part == SubSeq(r, dot + 1, Len(r))
    IN  Dec(DigitsVal(int_part) * Pow10(Len(frac_part)) + DigitsVal(frac_part),
            Len(frac_part))
C6_Expected(v) ==
    IF v = None \/ v = << >> \/ ~C6_IsDecimal(C6_Remainder(v)) THEN Dec(0, 0)
    ELSE C6_Value(C6_Remainder(v))

\* C6: after cleaning, the numeric column under study (quantity, unit_price
\* or total_price alike) holds the value of its raw text with every
\* character other than digits and '.' deleted (',' included), or 0.0 when
\* the text is empty/null or the remainder is no decimal number; in
\* particular "$1,234.56" -> 1234.56, "" -> 0.0, "N/A" -> 0.0.
C6_NumericCoercion ==
    pc = "returned" =>
        /\ Len(output) = 1
        /\ output[1][input.column] = C6_Expected(input.value)
        /\ input.value = Text_1234_56 => output[1][input.column] = [num |-> 123456, scale |-> 2]
        /\ input.value = << >> => output[1][input.column] = [num |-> 0, scale |-> 0]
        /\ input.value = Text_NA => output[1][input.column] = [num |-> 0, scale |-> 0]
        /\ input.value = Text_1_2_3 => output[1][input.column] = [num |-> 0, scale |-> 0]

\* C6 witness: a text with a currency sign, a thousands comma and a
\* fraction was coerced to its value in the unit_price column
C6_Witness ==
    /\ pc = "returned"
    /\ input = [column |-> "unit_price", value |-> Text_1234_56]
    /\ output[1].unit_price = [num |-> 123456, scale |-> 2]

(***************************************************************************)
(* SpecExtract: _extract_invoice_data on every entity list of at most      *)
(* MaxEntities entities drawn from EntityPool: the five top-level types    *)
(* and one type outside the vocabulary, each with two texts, and line      *)
(* items with the property lists of PropertyLists.                         *)
(***************************************************************************)
TopLevelTypes ==
    {"supplier_name", "supplier_address", "invoice_id", "invoice_date", "total_amount"}
UnknownType == "receiver_name"
EntityTexts == {<<"A">>, <<"B">>}
Prop(t, text) == [type_ |-> t, mention_text |-> text]
PropertyLists ==
    { << >>,
      <<Prop("line_item/description", <<"p">>)>>,
      <<Prop("line_item/quantity", <<"1">>), Prop("line_item/quantity", <<"5">>)>>,
      <<Prop("line_item/description", <<"q">>), Prop("line_item/quantity", <<"1">>),
        Prop("line_item/unit_price", <<"5">>), Prop("line_item/amount", <<"5">>),
        Prop("line_item/product_code", <<"0">>)>> }
EntityPool ==
    [type_ : TopLevelTypes \cup {UnknownType}, mention_text : EntityTexts,
     properties : {<< >>}]
    \cup [type_ : {"line_item"}, mention_text : {<<"A">>}, properties : PropertyLists]
RawText == <<"t">>

InitExtract ==
    /\ InitSession
    /\ pc = "called"
    /\ input \in [text : {RawText}, entities : SeqsUpTo(EntityPool, MaxEntities)]

ExtractInvoiceData ==
    /\ pc = "called"
    /\ pc' = "returned"
    /\ output' = _extract_invoice_data(input)
    /\ UNCHANGED <<input, pipeline_vars, dp_processed_data, clock, fs, calls>>

NextExtract == ExtractInvoiceData
SpecExtract == InitExtract /\ [][NextExtract]_vars

\* where each recognized top-level type is stored
C1_Destination ==
    [supplier_name |-> <<"vendor_info", "name">>,
     supplier_address |-> <<"vendor_info", "address">>,
     invoice_id |-> <<"invoice_details", "invoice_id">>,
     invoice_date |-> <<"invoice_details", "date">>,
     total_amount |-> <<"totals", "total">>]
C1_Occurrences(t) == {i \in DOMAIN input.entities : input.entities[i].type_ = t}
C1_Last(t) == CHOOSE i \in C1_Occurrences(t) : \A j \in C1_Occurrences(t) : j <= i

\* C1: after _extract_invoice_data each of the five top-level fields holds
\* the text of the last entity of its type in the list (a single text: no
\* accumulation of earlier ones), and is absent when no entity of that
\* type occurs.
C1_LastOccurrenceWins ==
    pc = "returned" =>
        \A t \in TopLevelTypes :
            LET section == C1_Destination[t][1]
                key == C1_Destination[t][2]
            IN  IF C1_Occurrences(t) = {}
                THEN key \notin DOMAIN output[section]
                ELSE /\ key \in DOMAIN output[section]
                     /\ output[section][key] = input.entities[C1_Last(t)].mention_text

\* C1 witness: two supplier_name entities with different texts were
\* extracted and the record holds the second text
C1_Witness ==
    /\ pc = "returned"
    /\ Len(input.entities) = 3
    /\ input.entities[1].type_ = "supplier_name" /\ input.entities[1].mention_text = <<"A">>
    /\ input.entities[3].type_ = "supplier_name" /\ input.entities[3].mention_text = <<"B">>
    /\ output.vendor_info.name = <<"B">>

(***************************************************************************)
(* Spec: a session of the application.  Every "Process Files" click is a   *)
(* script run that constructs InvoiceProcessorApp (and with it a new       *)
(* DataProcessor) and calls _process_files on the uploaded batch; the      *)
(* session state outlives the runs.  An uploaded file is                   *)
(* [name, raises, document]: process_document either raises or returns     *)
(* _extract_invoice_data of the document the service answered with.        *)
(***************************************************************************)
Ent(t, text) == [type_ |-> t, mention_text |-> text, properties |-> << >>]
Item(d, q, u, a) ==
    [type_ |-> "line_item", mention_text |-> << >>,
     properties |-> <<Prop("line_item/description", d), Prop("line_item/quantity", q),
                      Prop("line_item/unit_price", u), Prop("line_item/amount", a)>>]
Text_acme_co == <<" ", "a", "c", "m", "e", " ", "c", "o">>
Text_Acme_Co == <<"A", "c", "m", "e", " ", "C", "o">>
Text_Bolt == <<"B", "o", "l", "t">>
Text_INV1 == <<"I", "N", "V", "-", "1">>
Text_INV2 == <<"I", "N", "V", "-", "2">>
Text_2024_01_15 == <<"2", "0", "2", "4", "-", "0", "1", "-", "1", "5">>
Text_2024_02_30 == <<"2", "0", "2", "4", "-", "0", "2", "-", "3", "0">>
Text_not_a_date == <<"n", "o", "t", " ", "a", " ", "d", "a", "t", "e">>
Text_nut == <<"n", "u", "t">>
Text_Nut == <<"N", "u", "t">>
Text_gear == <<"g", "e", "a", "r">>
Text_Gear == <<"G", "e", "a", "r">>
Text_axle == <<"a", "x", "l", "e">>
Text_Axle == <<"A", "x", "l", "e">>

DocumentA ==
    [text |-> RawText,
     entities |-> <<Ent("supplier_name", Text_acme_co), Ent("invoice_id", Text_INV1),
                    Ent("invoice_date", Text_2024_01_15),
                    Item(Text_nut, <<"2">>, <<"1", "0", ".", "0", "0">>, Text_20_00),
                    Item(Text_gear, <<"1">>, <<"$", "5">>, <<"5">>)>>]
DocumentB ==
    [text |-> RawText,
     entities |-> <<Ent("supplier_name", Text_Bolt), Ent("invoice_date", Text_not_a_date),
                    Item(Text_axle, Text_NA, Text_1234_56, Text_1234_56)>>]
DocumentEmpty ==
    [text |-> RawText,
     entities |-> <<Ent("supplier_name", Text_Bolt), Ent("invoice_id", Text_INV2)>>]

FileA == [name |-> "a.pdf", raises |-> FALSE, document |-> DocumentA]
FileB == [name |-> "b.pdf", raises |-> FALSE, document |-> DocumentB]
FileEmpty == [name |-> "empty.pdf", raises |-> FALSE, document |-> DocumentEmpty]
FileBad == [name |-> "bad.pdf", raises |-> TRUE, document |-> [text |-> << >>, entities |-> << >>]]
UploadedFiles == {FileA, FileB, FileEmpty, FileBad}
\* the non-empty batches of at most n files ("if uploaded_files:")
Batches(n) == SeqsUpTo(UploadedFiles, n) \ {<< >>}

Init ==
    /\ InitSession
    /\ pc = "idle"
    /\ input = << >>

\* "Process Files" clicked with a non-empty upload: the script run builds
\* the application objects and enters _process_files
ProcessFilesStart ==
    /\ pc \in {"idle", "done"}
    /\ \E files \in Batches(MaxUploads - uploads) :
           /\ uploaded_files' = files
           /\ uploads' = uploads + Len(files)
    /\ pc' = "loop"
    /\ file_idx' = 0
    /\ all_data' = << >>
    /\ errors' = << >>
    /\ dp_processed_data' = NoFrame
    /\ batches' = batches + 1
    /\ output' = << >>
    /\ UNCHANGED <<input, session_processed_data, processing_history, clock, fs, calls>>

\* faulty variant: no handler around the loop body, the exception leaves
\* _process_files and the script run ends
except_propagates_pc == "aborted"

\* "except Exception as e: st.error(...)": the handler reports the file and
\* the loop goes on with the next one
except_handler_pc == "loop"

\* faulty variant: the frame is appended whether or not it has rows
collect_always(frames, df, tagged) == Append(frames, tagged)

\* "if not df.empty: df['source_file'] = ...; all_data.append(df)"
collect(frames, df, tagged) == IF df # << >> THEN Append(frames, tagged) ELSE frames

\* one iteration of the loop over uploaded_files, its try/except included
ProcessFile ==
    /\ pc = "loop"
    /\ file_idx < Len(uploaded_files)
    /\ file_idx' = file_idx + 1
    /\ LET uploaded_file == uploaded_files[file_idx + 1]
       IN  IF uploaded_file.raises
           THEN /\ errors' = Append(errors, uploaded_file.name)
                /\ pc' = except_handler_pc
                /\ output' = << >>
                /\ UNCHANGED <<all_data, dp_processed_data, processing_history, clock>>
           ELSE LET invoice_data == _extract_invoice_data(uploaded_file.document)
                    df == process_invoice_data(invoice_data, clock)
                    tagged == assign_column(df, "source_file", uploaded_file.name)
                    after_build == IF df = << >> THEN clock ELSE clock + 1
                IN  /\ all_data' = collect(all_data, df, tagged)
                    /\ dp_processed_data' =
                           IF df # << >> THEN tagged
                           ELSE stored_after(invoice_data, clock, dp_processed_data)
                    /\ processing_history' =
                           Append(processing_history,
                                  [filename |-> uploaded_file.name,
                                   timestamp |-> after_build,
                                   items_extracted |-> Len(df)])
                    /\ clock' = after_build + 1
                    /\ output' = tagged
                    /\ UNCHANGED <<pc, errors>>
    /\ UNCHANGED <<input, uploaded_files, session_processed_data, batches, uploads, fs, calls>>

\* after the loop: "Combine all data"
ProcessFilesFinish ==
    /\ pc = "loop"
    /\ file_idx = Len(uploaded_files)
    /\ session_processed_data' =
           IF all_data # << >> THEN pd_concat(all_data) ELSE session_processed_data
    /\ pc' = "done"
    /\ UNCHANGED <<input, output, uploaded_files, file_idx, all_data, errors,
                   processing_history, dp_processed_data, clock, batches, uploads, fs, calls>>

\* sidebar button "Clear History": a script run of its own, with newly
\* built application objects, that does not enter _process_files
ClearHistory ==
    /\ pc \in {"idle", "done"}
    /\ processing_history # << >>
    /\ processing_history' = << >>
    /\ pc' = "idle"
    /\ dp_processed_data' = NoFrame
    /\ UNCHANGED <<input, output, uploaded_files, file_idx, all_data, errors,
                   session_processed_data, clock, batches, uploads, fs, calls>>

Next == ProcessFilesStart \/ ProcessFile \/ ProcessFilesFinish \/ ClearHistory
Spec == Init /\ [][Next]_vars

(***************************************************************************)
(* What the files of UploadedFiles hold, written out by hand: the rows     *)
(* each contributes to a table (the processing timestamp left out) and     *)
(* whether its extraction fails.                                           *)
(***************************************************************************)
Expect_RowsA ==
    << [description |-> Text_Nut, quantity |-> [num |-> 2, scale |-> 0],
        unit_price |-> [num |-> 10, scale |-> 0], total_price |-> [num |-> 20, scale |-> 0],
        invoice_id |-> Text_INV1, vendor_name |-> Text_Acme_Co,
        invoice_date |-> [year |-> 2024, month |-> 1, day |-> 15], source_file |-> "a.pdf"],
       [description |-> Text_Gear, quantity |-> [num |-> 1, scale |-> 0],
        unit_price |-> [num |-> 5, scale |-> 0], total_price |-> [num |-> 5, scale |-> 0],
        invoice_id |-> Text_INV1, vendor_name |-> Text_Acme_Co,
        invoice_date |-> [year |-> 2024, month |-> 1, day |-> 15], source_file |-> "a.pdf"] >>
Expect_RowsB ==
    << [description |-> Text_Axle, quantity |-> [num |-> 0, scale |-> 0],
        unit_price |-> [num |-> 123456, scale |-> 2],
        total_price |-> [num |-> 123456, scale |-> 2],
        invoice_id |-> << >>, vendor_name |-> Text_Bolt,
        invoice_date |-> [year |-> 0, month |-> 0, day |-> 0], source_file |-> "b.pdf"] >>
Expect_RowsOf(name) ==
    IF name = "a.pdf" THEN Expect_RowsA ELSE IF name = "b.pdf" THEN Expect_RowsB ELSE << >>
Expect_Fails(name) == name = "bad.pdf"
RECURSIVE Expect_Table(_)
Expect_Table(files) ==
    IF files = << >> THEN << >>
    ELSE Expect_RowsOf(files[1].name) \o Expect_Table(Tail(files))
WithoutTimestamp(df) ==
    [i \in DOMAIN df |-> [c \in DOMAIN df[i] \ {"processed_timestamp"} |-> df[i][c]]]
\* the script run of a batch has ended and no other run has followed
BatchDone == pc = "done"
\* the batch put a table in place: it collected a row, or it is the first
\* batch of the session (whose table is empty when nothing was collected)
TableBuilt == all_data # << >> \/ batches = 1

(***************************************************************************)
(* C2 (fails on the code).                                                 *)
(***************************************************************************)
RECURSIVE C2_Total(_)
C2_Total(df) == IF df = << >> THEN Dec(0, 0) ELSE DecAdd(C2_Total(Tail(df)), df[1].total_price)
\* a / m = b / n for decimals a, b and counts m, n
C2_SameQuotient(a, m, b, n) ==
    LET k == Max(a.scale, b.scale)
    IN  a.num * Pow10(k - a.scale) * n = b.num * Pow10(k - b.scale) * m

\* C2: whenever a batch has produced a consolidated table, the summary
\* statistics equal the aggregates over all its rows: total_items its number
\* of rows, total_amount the sum of total_price, average_item_price their
\* mean, unique_vendors the number of distinct vendor names.
C2_SummaryOverWholeTable ==
    (BatchDone /\ all_data # << >>) =>
        LET stats == get_summary_statistics(dp_processed_data)
            table == session_processed_data
        IN  /\ stats # << >>
            /\ stats.total_items = Len(table)
            /\ stats.total_amount = C2_Total(table)
            /\ C2_SameQuotient(stats.average_item_price.sum, stats.average_item_price.count,
                               C2_Total(table), Len(table))
            /\ stats.unique_vendors = Cardinality({table[i].vendor_name : i \in DOMAIN table})

(***************************************************************************)
(* C3.                                                                     *)
(***************************************************************************)
C3_HasFailure(files) == \E i \in DOMAIN files : Expect_Fails(files[i].name)
C3_Failing(files) == SelectSeq(files, LAMBDA f : Expect_Fails(f.name))
C3_WithRows(files) == SelectSeq(files, LAMBDA f : Expect_RowsOf(f.name) # << >>)

C4_ConcatenationInOrder ==
    (BatchDone /\ TableBuilt) =>
        /\ WithoutTimestamp(session_processed_data) = Expect_Table(uploaded_files)
        /\ \A i, j \in DOMAIN session_processed_data :
               i < j => session_processed_data[i].processed_timestamp
                            <= session_processed_data[j].processed_timestamp

\* C4 witness: the same invoice uploaded twice around another one: all
\* five rows are in the table, file by file
C4_Witness ==
    /\ BatchDone
    /\ uploaded_files = <<FileA, FileB, FileA>>
    /\ [i \in DOMAIN session_processed_data |-> session_processed_data[i].source_file]
           = <<"a.pdf", "a.pdf", "b.pdf", "a.pdf", "a.pdf">>
    /\ session_processed_data[1].description = session_processed_data[4].description

(***************************************************************************)
(* C5 (fails on the code).                                                 *)
(***************************************************************************)
\* C5: after a second or later batch the session table consists of exactly
\* the rows of the latest batch, whatever that batch extracted.
C5_ReplacedWholesale ==
    (BatchDone /\ batches >= 2) =>
        WithoutTimestamp(session_processed_data) = Expect_Table(uploaded_files)

(***************************************************************************)
(* C9.                                                                     *)
(***************************************************************************)
C9_NoLineItems(file) ==
    ~file.raises /\ \A i \in DOMAIN file.document.entities :
                        file.document.entities[i].type_ # "line_item"
C9_HasEmpty(files) == \E i \in DOMAIN files : C9_NoLineItems(files[i])
\* records without line items: the key missing, or an empty list
C9_EmptyRecords ==
    { [vendor_info |-> [name |-> Text_Bolt], invoice_details |-> [invoice_id |-> Text_INV2]],
      [vendor_info |-> [name |-> Text_Bolt], invoice_details |-> [invoice_id |-> Text_INV2],
       line_items |-> << >>],
      [line_items |-> << >>] }

\* C9: a record whose line_items are missing or empty yields the empty frame
\* (the call returns, nothing is reported as an error); in a batch such a
\* file adds no frame to the collected ones, and the table the batch puts
\* in place holds the rows of the other files as if it had not been there.
C9_EmptyDocumentYieldsNoRows ==
    /\ \A r \in C9_EmptyRecords : process_invoice_data(r, clock) = << >>
    /\ (pc = "loop" /\ file_idx >= 1 /\ C9_NoLineItems(uploaded_files[file_idx])) =>
           output = << >>
    /\ Len(all_data) = Len(C3_WithRows(SubSeq(uploaded_files, 1, file_idx)))
    /\ \A i \in DOMAIN errors : Expect_Fails(errors[i])
    /\ (BatchDone /\ C9_HasEmpty(uploaded_files) /\ TableBuilt) =>
           WithoutTimestamp(session_processed_data)
               = Expect_Table(SelectSeq(uploaded_files, LAMBDA f : ~C9_NoLineItems(f)))

\* C9 witness: a batch of a file without line items followed by one with
\* two has ended: no error, one frame collected, two rows in the table
C9_Witness ==
    /\ BatchDone
    /\ uploaded_files = <<FileEmpty, FileA>>
    /\ errors = << >>
    /\ Len(all_data) = 1
    /\ Len(session_processed_data) = 2
    /\ Len(processing_history) = 2
    /\ processing_history[1].items_extracted = 0

(***************************************************************************)
(* SpecBuild: one document turned into rows, as the loop body of           *)
(* _process_files does it: process_invoice_data on the record, then the    *)
(* source file name on every row.  The records drawn: line_items missing   *)
(* or any list of at most MaxItems items of LineItemPool; vendor_info and  *)
(* invoice_details missing, or present with each field missing or one of   *)
(* the texts below.                                                        *)
(***************************************************************************)
Text_gear_padded == <<" ", "g", "e", "a", "r", " ">>
LineItemPool ==
    { [description |-> Text_nut, quantity |-> <<"2">>,
       unit_price |-> <<"1", "0", ".", "0", "0">>, total_price |-> Text_20_00],
      [description |-> Text_gear_padded, quantity |-> Text_NA,
       unit_price |-> Text_1234_56, total_price |-> << >>],
      [description |-> << >>, quantity |-> Text_1_2_3,
       unit_price |-> <<".">>, total_price |-> <<"5">>] }
Optional(S) == {<< >>} \cup {<<x>> : x \in S}
VendorInfos == {[name |-> n] : n \in {Text_acme_co, Text_Bolt}} \cup {<< >>}
RawDates == {Text_2024_01_15, Text_2024_02_30, Text_not_a_date, << >>}
InvoiceDetails ==
    {<< >>} \cup {[invoice_id |-> x] : x \in {Text_INV1}}
            \cup {[date |-> d] : d \in RawDates}
            \cup {[invoice_id |-> x, date |-> d] : x \in {Text_INV1}, d \in RawDates}
\* a dict with the keys whose option is present
MkRecord(items, vendor, details) ==
    [k \in {"line_items" : x \in DOMAIN items} \cup {"vendor_info" : x \in DOMAIN vendor}
           \cup {"invoice_details" : x \in DOMAIN details} |->
        IF k = "line_items" THEN items[1]
        ELSE IF k = "vendor_info" THEN vendor[1] ELSE details[1]]
BuildRecords ==
    {MkRecord(items, vendor, details) :
        items \in Optional(SeqsUpTo(LineItemPool, MaxItems)),
        vendor \in Optional(VendorInfos),
        details \in Optional(InvoiceDetails)}

InitBuild ==
    /\ InitSession
    /\ pc = "called"
    /\ input \in [invoice_data : BuildRecords, source_file : {"a.pdf"}]

BuildRows ==
    /\ pc = "called"
    /\ pc' = "returned"
    /\ LET df == process_invoice_data(input.invoice_data, clock)
           tagged == assign_column(df, "source_file", input.source_file)
       IN  /\ output' = tagged
           /\ dp_processed_data' =
                  IF df # << >> THEN tagged
                  ELSE stored_after(input.invoice_data, clock, dp_processed_data)
           /\ clock' = IF df = << >> THEN clock ELSE clock + 1
    /\ UNCHANGED <<input, pipeline_vars, fs, calls>>

NextBuild == BuildRows
SpecBuild == InitBuild /\ [][NextBuild]_vars

(***************************************************************************)
(* C7 and C8 read the drawn record directly.                               *)
(***************************************************************************)
Drawn_Items ==
    IF "line_items" \in DOMAIN input.invoice_data THEN input.invoice_data.line_items ELSE << >>
Drawn_Field(section, key) ==
    IF section \in DOMAIN input.invoice_data /\ key \in DOMAIN input.invoice_data[section]
    THEN <<input.invoice_data[section][key]>> ELSE << >>

C7_UnparseableNumbers == {Text_NA, << >>, Text_1_2_3, <<".">>}
C7_UnparseableDates == {Text_2024_02_30, Text_not_a_date, << >>}
C7_IsCalendarDate(d) ==
    /\ d.year >= 1 /\ d.month \in 1..12 /\ d.day >= 1
    /\ d.day <= (IF d.month = 2 THEN 29 ELSE 31)

\* C7: in every row returned, quantity, unit_price and total_price are
\* present and are numbers, never null (0.0 when the raw text does not
\* parse); invoice_date is a calendar date or null, and it is null in every
\* row when the record's raw date is missing or is no date: no other value
\* (such as the day of processing) stands in for it.
C7_RowInvariant ==
    pc = "returned" =>
        /\ Len(output) = Len(Drawn_Items)
        /\ \A i \in DOMAIN output :
            /\ \A c \in {"quantity", "unit_price", "total_price"} :
                /\ c \in DOMAIN output[i]
                /\ output[i][c] # [num |-> 0, scale |-> -1]
                /\ output[i][c].scale >= 0 /\ output[i][c].num >= 0
                /\ Drawn_Items[i][c] \in C7_UnparseableNumbers =>
                       output[i][c] = [num |-> 0, scale |-> 0]
            /\ \/ output[i].invoice_date = [year |-> 0, month |-> 0, day |-> 0]
               \/ C7_IsCalendarDate(output[i].invoice_date)
            /\ (\/ Drawn_Field("invoice_details", "date") = << >>
                \/ Drawn_Field("invoice_details", "date")[1] \in C7_UnparseableDates) =>
                   output[i].invoice_date = [year |-> 0, month |-> 0, day |-> 0]

\* C7 witness: a record whose date is no date, with an item whose quantity
\* is "N/A" and whose total is empty, was built into a row with zeros and a
\* null date
C7_Witness ==
    /\ pc = "returned"
    /\ Drawn_Field("invoice_details", "date") = <<Text_not_a_date>>
    /\ Len(output) = 1
    /\ Drawn_Items[1].quantity = Text_NA
    /\ output[1].quantity = [num |-> 0, scale |-> 0]
    /\ output[1].total_price = [num |-> 0, scale |-> 0]
    /\ output[1].unit_price = [num |-> 123456, scale |-> 2]
    /\ output[1].invoice_date = [year |-> 0, month |-> 0, day |-> 0]

\* the texts of the drawn records after strip and title-casing, by hand
C8_Normalized(text) ==
    IF text = Text_acme_co THEN Text_Acme_Co
    ELSE IF text = Text_nut THEN Text_Nut
    ELSE IF text = Text_gear_padded THEN Text_Gear
    ELSE text
C8_OrEmpty(opt) == IF opt = << >> THEN << >> ELSE opt[1]
C8_DateOf(opt) ==
    IF opt = <<Text_2024_01_15>> THEN [year |-> 2024, month |-> 1, day |-> 15]
    ELSE [year |-> 0, month |-> 0, day |-> 0]

\* C8: a record with n >= 1 line items gives n rows, row i from item i, and
\* every row carries the record's vendor name (stripped and title-cased),
\* its invoice id as it is, its invoice date, the source file name given
\* and the one timestamp read when the rows were built; a missing field is
\* the empty text in every row (the null date for the date).
C8_RowBroadcast ==
    (pc = "returned" /\ Len(Drawn_Items) >= 1) =>
        /\ Len(output) = Len(Drawn_Items)
        /\ clock = 1
        /\ \A i \in DOMAIN output :
            /\ output[i].description = C8_Normalized(Drawn_Items[i].description)
            /\ output[i].vendor_name
                   = C8_Normalized(C8_OrEmpty(Drawn_Field("vendor_info", "name")))
            /\ output[i].invoice_id = C8_OrEmpty(Drawn_Field("invoice_details", "invoice_id"))
            /\ output[i].invoice_date = C8_DateOf(Drawn_Field("invoice_details", "date"))
            /\ output[i].source_file = input.source_file
            /\ output[i].processed_timestamp = 0

\* C8 witness: two items under vendor " acme co", invoice INV-1 of
\* 2024-01-15 became two rows with "Acme Co" and INV-1 on both
C8_Witness ==
    /\ pc = "returned"
    /\ Len(output) = 2
    /\ Drawn_Items[1].description = Text_nut /\ Drawn_Items[2].description = Text_gear_padded
    /\ output[2].description = Text_Gear
    /\ \A i \in {1, 2} :
        /\ output[i].vendor_name = Text_Acme_Co
        /\ output[i].invoice_id = Text_INV1
        /\ output[i].invoice_date = [year |-> 2024, month |-> 1, day |-> 15]
        /\ output[i].source_file = "a.pdf"

(***************************************************************************)
(* app/export_manager.py.  The file system under settings.EXPORT_DIR is    *)
(* the dict fs from path text to file content; a content records which     *)
(* writer produced it and the data written.  The outcome of a call is      *)
(* [raised, value, exporter, df]: the returned path or the ValueError      *)
(* message, the exporter that ran ("none" when none did), and the frame    *)
(* passed in as it is after the call.                                      *)
(***************************************************************************)
EXPORT_DIR == <<"d", "a", "t", "a", "/", "e", "x", "p", "o", "r", "t", "s">>
Text_CSV == <<"C", "S", "V">>
Text_EXCEL == <<"E", "X", "C", "E", "L">>
Text_JSON == <<"J", "S", "O", "N">>
Text_Unsupported_format ==
    <<"U", "n", "s", "u", "p", "p", "o", "r", "t", "e", "d", " ",
      "f", "o", "r", "m", "a", "t", ":", " ">>

\* settings.EXPORT_DIR / f"{filename}.{format_type.lower()}"
export_path_of(format_type, filename) ==
    EXPORT_DIR \o <<"/">> \o filename \o <<".">> \o str_lower(format_type)

(***************************************************************************)
(* _export_json.  df.to_dict('records') gives one dict per row whose       *)
(* values are Python objects; a value is [type, value] with the type its   *)
(* column's dtype boxes to: float for the numeric columns, Timestamp or    *)
(* NaTType for invoice_date, str for the others.  The str of               *)
(* processed_timestamp and source_file is opaque in the model (it has no   *)
(* character JSON escapes) and goes through as it is.  A JSON value in the *)
(* file is the token [kind, text] as written: a string between its quotes  *)
(* with escapes, a number as Python writes the float, or null.  The file   *)
(* is the array of objects, an object a dict from key to token.            *)
(***************************************************************************)
opaque_str_columns == {"processed_timestamp", "source_file"}
box(col, v) ==
    IF col \in numeric_columns THEN [type |-> "float", value |-> v]
    ELSE IF col = "invoice_date"
    THEN [type |-> IF v = NaT THEN "NaTType" ELSE "Timestamp", value |-> v]
    ELSE [type |-> "str", value |-> v, opaque |-> col \in opaque_str_columns]
to_dict_records(df) ==
    [i \in DOMAIN df |-> [col \in DOMAIN df[i] |-> box(col, df[i][col])]]

\* digits of a natural number, at least `width` of them
RECURSIVE NatDigits(_, _)
NatDigits(n, width) ==
    IF n < 10 /\ width <= 1 THEN <<Digits[n + 1]>>
    ELSE NatDigits(n \div 10, width - 1) \o <<Digits[(n % 10) + 1]>>

\* Timestamp.isoformat() of a date at midnight
isoformat(d) ==
    NatDigits(d.year, 4) \o <<"-">> \o NatDigits(d.month, 2) \o <<"-">>
        \o NatDigits(d.day, 2) \o <<"T", "0", "0", ":", "0", "0", ":", "0", "0">>
\* str(Timestamp) of a date at midnight, str(NaT)
str_of(obj) ==
    IF obj.type = "NaTType" THEN <<"N", "a", "T">>
    ELSE NatDigits(obj.value.year, 4) \o <<"-">> \o NatDigits(obj.value.month, 2)
             \o <<"-">> \o NatDigits(obj.value.day, 2)
             \o <<" ", "0", "0", ":", "0", "0", ":", "0", "0">>

PyNone == [type |-> "NoneType", value |-> None]
PyStr(text) == [type |-> "str", value |-> text, opaque |-> FALSE]

\* faulty variant: default=str, as create_summary_report has it
json_serializer_str(obj) == PyStr(str_of(obj))

\* the default= hook, called for the objects json cannot write by itself
json_serializer(obj) ==
    IF obj.type = "NaTType" THEN PyNone
    ELSE IF obj.type = "Timestamp" THEN PyStr(isoformat(obj.value))
    ELSE PyStr(str_of(obj))

\* a JSON string as written with ensure_ascii=False: quote, backslash and
\* newline escaped
escape_char(c) ==
    IF c = "\"" THEN <<"\\", "\"">>
    ELSE IF c = "\\" THEN <<"\\", "\\">>
    ELSE IF c = "\n" THEN <<"\\", "n">>
    ELSE <<c>>
RECURSIVE escape(_)
escape(text) ==
    IF text = << >> THEN << >> ELSE escape_char(Head(text)) \o escape(Tail(text))

\* float.__repr__ of a non-negative float below 1e16 with no exponent
float_repr(x) ==
    IF x = NaN THEN <<"N", "a", "N">>
    ELSE NatDigits(x.num \div Pow10(x.scale), 1) \o <<".">>
             \o (IF x.scale = 0 THEN <<"0">>
                 ELSE NatDigits(x.num % Pow10(x.scale), x.scale))

\* what json writes for a str, float or None
json_native(obj) ==
    IF obj.type = "str"
    THEN [kind |-> "string", text |-> IF obj.opaque THEN obj.value ELSE escape(obj.value)]
    ELSE IF obj.type = "float"
    THEN [kind |-> "number", text |-> float_repr(obj.value)]
    ELSE [kind |-> "null", text |-> <<"n", "u", "l", "l">>]
json_encode(obj) ==
    IF obj.type \in {"str", "float", "NoneType"} THEN json_native(obj)
    ELSE json_native(json_serializer(obj))
json_dump(json_data) ==
    [i \in DOMAIN json_data |->
        [key \in DOMAIN json_data[i] |-> json_encode(json_data[i][key])]]

\* what the exporter writes into the file: the JSON array for
\* _export_json; for the other two writers the frame they were given
file_content(exporter, df) ==
    IF exporter = "_export_json" THEN json_dump(to_dict_records(df)) ELSE df

\* _export_csv, _export_excel, _export_json: write the file, return
\* str(path); df is the caller's frame as it is after the call
run_exporter(files, exporter, df, path) ==
    [fs |-> dict_set(files, path,
                     [writer |-> exporter, data |-> file_content(exporter, df)]),
     raised |-> FALSE, value |-> path, exporter |-> exporter, df |-> df]

\* faulty variant: the destination is opened for writing before the format is looked at
export_data_opens_first(files, df, format_type, filename) ==
    LET export_path == export_path_of(format_type, filename)
        opened == dict_set(files, export_path, [writer |-> "open", data |-> << >>])
    IN  IF str_upper(format_type) = Text_CSV
        THEN run_exporter(opened, "_export_csv", df, export_path)
        ELSE IF str_upper(format_type) = Text_EXCEL
        THEN run_exporter(opened, "_export_excel", df, export_path)
        ELSE IF str_upper(format_type) = Text_JSON
        THEN run_exporter(opened, "_export_json", df, export_path)
        ELSE [fs |-> opened, raised |-> TRUE,
              value |-> Text_Unsupported_format \o format_type, exporter |-> "none",
              df |-> df]

export_data(files, df, format_type, filename) ==
    LET export_path == export_path_of(format_type, filename)
    IN  IF str_upper(format_type) = Text_CSV
        THEN run_exporter(files, "_export_csv", df, export_path)
        ELSE IF str_upper(format_type) = Text_EXCEL
        THEN run_exporter(files, "_export_excel", df, export_path)
        ELSE IF str_upper(format_type) = Text_JSON
        THEN run_exporter(files, "_export_json", df, export_path)
        ELSE [fs |-> files, raised |-> TRUE,
              value |-> Text_Unsupported_format \o format_type, exporter |-> "none",
              df |-> df]

(***************************************************************************)
(* SpecExport: any sequence of export_data calls on the frames of          *)
(* ExportFrames, with the format texts of FormatTexts and the file names   *)
(* of ExportFilenames.                                                     *)
(***************************************************************************)
Text_XML == <<"X", "M", "L">>
FormatTexts ==
    { Text_CSV, <<"c", "s", "v">>, <<"E", "x", "c", "e", "l">>, Text_EXCEL,
      Text_JSON, <<"J", "s", "o", "n">>, Text_XML, <<"x", "l", "s", "x">>, << >> }
ExportFilenames == {<<"o", "u", "t">>, <<"r">>}
FrameOf(file) ==
    assign_column(process_invoice_data(_extract_invoice_data(file.document), 0),
                  "source_file", file.name)
\* a document whose one item has a quote and a backslash in its description
\* and a zero amount, and that names no date
Text_quoted == <<"3", "\"", "\\", "x">>
DocumentQuoted ==
    [text |-> RawText,
     entities |-> <<Ent("supplier_name", Text_Bolt),
                    Item(Text_quoted, <<"2">>, <<"0", ".", "5", "0">>, <<"0">>)>>]
FileQuoted == [name |-> "q.pdf", raises |-> FALSE, document |-> DocumentQuoted]
ExportFrames == {FrameOf(FileA), FrameOf(FileQuoted)}

InitExport ==
    /\ InitSession
    /\ pc = "idle"
    /\ input = << >>

ExportData ==
    \E df \in ExportFrames, format_type \in FormatTexts, filename \in ExportFilenames :
        LET result == export_data(fs, df, format_type, filename)
        IN  /\ pc' = "exported"
            /\ input' = [df |-> df, format_type |-> format_type, filename |-> filename]
            /\ fs' = result.fs
            /\ output' = [raised |-> result.raised, value |-> result.value,
                          exporter |-> result.exporter, df |-> result.df]
            /\ UNCHANGED <<pipeline_vars, dp_processed_data, clock, calls>>

NextExport == ExportData
SpecExport == InitExport /\ [][NextExport]_vars

(***************************************************************************)
(* C10.                                                                    *)
(***************************************************************************)
\* the format texts drawn that name CSV, Excel or JSON in some letter case
C10_Supported ==
    { <<"C", "S", "V">>, <<"c", "s", "v">>, <<"E", "x", "c", "e", "l">>,
      <<"E", "X", "C", "E", "L">>, <<"J", "S", "O", "N">>, <<"J", "s", "o", "n">> }
C10_Message(format_type) ==
    <<"U", "n", "s", "u", "p", "p", "o", "r", "t", "e", "d", " ",
      "f", "o", "r", "m", "a", "t", ":", " ">> \o format_type

\* C10: a call of export_data whose format is none of CSV, Excel, JSON (in
\* any letter case) raises the unsupported-format error naming that format
\* and leaves the export directory exactly as it was: no file created, none
\* written, no exporter run.
C10_UnsupportedFormatRejected ==
    [][(pc' = "exported" /\ input'.format_type \notin C10_Supported) =>
           /\ fs' = fs
           /\ output'.raised
           /\ output'.value = C10_Message(input'.format_type)
           /\ output'.exporter = "none"]_vars

\* C10 witness: after a CSV export of out, an export of out as XML was
\* refused: out.csv is the only file
C10_Witness ==
    /\ pc = "exported"
    /\ input.format_type = <<"X", "M", "L">> /\ input.filename = <<"o", "u", "t">>
    /\ output.raised /\ output.exporter = "none"
    /\ DOMAIN fs = {<<"d", "a", "t", "a", "/", "e", "x", "p", "o", "r", "t", "s", "/",
                      "o", "u", "t", ".", "c", "s", "v">>}

(***************************************************************************)
(* SpecProcessor: one DataProcessor, from its construction on, under any   *)
(* sequence of at most MaxCalls process_invoice_data calls, with           *)
(* get_summary_statistics called at any point in between.  The records     *)
(* passed are those extracted from DocumentA, DocumentB and DocumentEmpty, *)
(* and a record that has no line_items key at all.                         *)
(***************************************************************************)
RecordWithoutItems == [vendor_info |-> [name |-> Text_Bolt]]
ProcessorRecords ==
    {_extract_invoice_data(DocumentA), _extract_invoice_data(DocumentB),
     _extract_invoice_data(DocumentEmpty), RecordWithoutItems}

InitProcessor ==
    /\ InitSession
    /\ pc = "idle"
    /\ input = << >>

ProcessInvoiceData ==
    /\ Len(calls) < MaxCalls
    /\ \E invoice_data \in ProcessorRecords :
           LET df == process_invoice_data(invoice_data, clock)
           IN  /\ input' = invoice_data
               /\ output' = df
               /\ dp_processed_data' = stored_after(invoice_data, clock, dp_processed_data)
               /\ clock' = IF df = << >> THEN clock ELSE clock + 1
               /\ calls' = Append(calls, [invoice_data |-> invoice_data, returned |-> df])
    /\ pc' = "processed"
    /\ UNCHANGED <<pipeline_vars, fs>>

GetSummaryStatistics ==
    /\ pc # "summarized"
    /\ output' = get_summary_statistics(dp_processed_data)
    /\ pc' = "summarized"
    /\ UNCHANGED <<input, pipeline_vars, dp_processed_data, clock, fs, calls>>

NextProcessor == ProcessInvoiceData \/ GetSummaryStatistics
SpecProcessor == InitProcessor /\ [][NextProcessor]_vars

\* the keys of the statistics dict built at data_processor.py 75-84
SummaryStatsKeys ==
    {"total_items", "total_amount", "average_item_price", "unique_vendors", "date_range"}

\* C11: get_summary_statistics on a DataProcessor whose stored table is
\* missing or empty returns a result of the SummaryStats shape, with
\* total_items = 0, total_amount = 0 and both date bounds null.
\* (fails on the code: the result is the dict without any key)
C11_EmptyTableZeroed ==
    (pc = "summarized" /\ (dp_processed_data = NoFrame \/ dp_processed_data = << >>)) =>
        /\ DOMAIN output = SummaryStatsKeys
        /\ output.total_items = 0
        /\ output.total_amount = Zero
        /\ output.date_range = [start |-> NaT, end |-> NaT]

\* the nested property type each line item field is taken from
C12_PropertyType ==
    [description |-> "line_item/description", quantity |-> "line_item/quantity",
     unit_price |-> "line_item/unit_price", total_price |-> "line_item/amount"]
C12_IsLineItem(entity) == entity.type_ = "line_item"
C12_LineItemEntities == SelectSeq(input.entities, C12_IsLineItem)
C12_Matching(properties, t) == {i \in DOMAIN properties : properties[i].type_ = t}
\* the text of the (last) property of type t, the empty string without one
C12_FieldText(properties, t) ==
    IF C12_Matching(properties, t) = {} THEN << >>
    ELSE properties[CHOOSE i \in C12_Matching(properties, t) :
                        \A j \in C12_Matching(properties, t) : j <= i].mention_text

\* C12: the record returned by _extract_invoice_data always has the keys
\* vendor_info, invoice_details and line_items; line_items holds one item
\* per line_item entity, in entity order, and each item has exactly the
\* four fields description, quantity, unit_price, total_price, each with
\* the text of the nested property of its type, or the empty string when
\* the entity has no such property.
C12_LineItemsParsed ==
    pc = "returned" =>
        /\ {"vendor_info", "invoice_details", "line_items"} \subseteq DOMAIN output
        /\ Len(output.line_items) = Len(C12_LineItemEntities)
        /\ \A i \in DOMAIN output.line_items :
               /\ DOMAIN output.line_items[i] = DOMAIN C12_PropertyType
               /\ \A f \in DOMAIN C12_PropertyType :
                      output.line_items[i][f] =
                          C12_FieldText(C12_LineItemEntities[i].properties,
                                        C12_PropertyType[f])

\* C12 witness: a line item with only a description, an entity of another
\* type, then a line item without any property; the two items come out in
\* that order, the missing fields as empty strings
C12_Witness ==
    /\ pc = "returned"
    /\ Len(input.entities) = 3
    /\ input.entities[1].type_ = "line_item"
    /\ input.entities[1].properties = <<Prop("line_item/description", <<"p">>)>>
    /\ input.entities[2].type_ = "invoice_id"
    /\ input.entities[3].type_ = "line_item"
    /\ input.entities[3].properties = << >>
    /\ output.line_items =
           <<[description |-> <<"p">>, quantity |-> << >>, unit_price |-> << >>,
              total_price |-> << >>],
             [description |-> << >>, quantity |-> << >>, unit_price |-> << >>,
              total_price |-> << >>]>>

\* the six entity types the loop of _extract_invoice_data has a branch for
C13_RecognizedTypes == TopLevelTypes \cup {"line_item"}
C13_IsRecognized(entity) == entity.type_ \in C13_RecognizedTypes
C13_WithoutUnknown ==
    [text |-> input.text, entities |-> SelectSeq(input.entities, C13_IsRecognized)]

\* C13: entities whose type is none of the six recognized ones have no
\* effect: the record extracted from an entity list equals the record
\* extracted from the same list with every unknown-type entity removed,
\* wherever in the list those entities stand, and the call returns.
C13_UnknownTypesIgnored ==
    pc = "returned" => output = _extract_invoice_data(C13_WithoutUnknown)

\* C13 witness: unknown-type entities before and after a supplier_name
\* entity; the record holds the vendor name and nothing else
C13_Witness ==
    /\ pc = "returned"
    /\ Len(input.entities) = 3
    /\ input.entities[1].type_ = UnknownType
    /\ input.entities[2].type_ = "supplier_name"
    /\ input.entities[3].type_ = UnknownType
    /\ output = [vendor_info |-> [name |-> input.entities[2].mention_text],
                 invoice_details |-> << >>, line_items |-> << >>, totals |-> << >>,
                 raw_text |-> RawText]

(***************************************************************************)
(* C14.  The file is read back the way a JSON reader does: a string token  *)
(* loses its escapes, a number token is parsed as a float, null is the     *)
(* null value.                                                             *)
(***************************************************************************)
RECURSIVE C14_Unescape(_)
C14_Unescape(text) ==
    IF text = << >> THEN << >>
    ELSE IF Head(text) = "\\"
    THEN <<IF text[2] = "n" THEN "\n" ELSE text[2]>> \o C14_Unescape(SubSeq(text, 3, Len(text)))
    ELSE <<Head(text)>> \o C14_Unescape(Tail(text))
\* the str a string token stands for
C14_StrOf(col, token) ==
    IF col \in {"processed_timestamp", "source_file"} THEN token.text
    ELSE C14_Unescape(token.text)
\* the calendar date of an ISO-8601 text YYYY-MM-DDT00:00:00
C14_InstantOf(text) ==
    IF /\ Len(text) = 19
       /\ text[5] = "-" /\ text[8] = "-" /\ text[11] = "T"
       /\ SubSeq(text, 12, 19) = <<"0", "0", ":", "0", "0", ":", "0", "0">>
       /\ \A i \in {1, 2, 3, 4, 6, 7, 9, 10} : IsDigit(text[i])
    THEN [year |-> DigitsVal(SubSeq(text, 1, 4)), month |-> DigitsVal(SubSeq(text, 6, 7)),
          day |-> DigitsVal(SubSeq(text, 9, 10))]
    ELSE [year |-> -1, month |-> -1, day |-> -1]
\* the cell v of column col reads back from the token as the same value
C14_SameField(col, v, token) ==
    IF col = "invoice_date"
    THEN IF v = NaT THEN token.kind = "null"
         ELSE token.kind = "string" /\ C14_InstantOf(C14_Unescape(token.text)) = v
    ELSE IF col \in {"quantity", "unit_price", "total_price"}
    THEN /\ token.kind = "number"
         /\ ParsesAsFloat(token.text)
         /\ FloatOf(token.text) = v
    ELSE token.kind = "string" /\ C14_StrOf(col, token) = v

\* C14: after a JSON export the file holds one object per row of the
\* table, in row order, with the column names as keys; a null invoice
\* date is written as null, a non-null one as an ISO-8601 string of the
\* same instant, a number (zero included) as a number token, a text as a
\* string, so that every field reads back equal to the original; and the
\* table passed in is the same after the call.
C14_JsonRoundTrip ==
    (pc = "exported" /\ output.exporter = "_export_json") =>
        /\ ~output.raised
        /\ output.df = input.df
        /\ output.value \in DOMAIN fs
        /\ fs[output.value].writer = "_export_json"
        /\ Len(fs[output.value].data) = Len(input.df)
        /\ \A i \in DOMAIN input.df :
               /\ DOMAIN fs[output.value].data[i] = DOMAIN input.df[i]
               /\ \A col \in DOMAIN input.df[i] :
                      C14_SameField(col, input.df[i][col], fs[output.value].data[i][col])

\* C14 witness: the table of q.pdf (no date, a zero amount, a description
\* with a quote and a backslash) was exported as JSON: null for the date,
\* 0.0 for the amount, the description with its escapes
C14_Witness ==
    /\ pc = "exported"
    /\ output.exporter = "_export_json"
    /\ input.df = FrameOf(FileQuoted)
    /\ input.df[1].invoice_date = NaT
    /\ input.df[1].total_price = Zero
    /\ fs[output.value].data[1].invoice_date = [kind |-> "null", text |-> <<"n", "u", "l", "l">>]
    /\ fs[output.value].data[1].total_price = [kind |-> "number", text |-> <<"0", ".", "0">>]
    /\ fs[output.value].data[1].unit_price = [kind |-> "number", text |-> <<"0", ".", "5">>]
    /\ fs[output.value].data[1].description =
           [kind |-> "string", text |-> <<"3", "\\", "\"", "\\", "\\", "X">>]

(***************************************************************************)
(* C15.                                                                    *)
(***************************************************************************)
\* the file extension that belongs to a supported format
C15_Extension(format_type) ==
    IF format_type \in {<<"C", "S", "V">>, <<"c", "s", "v">>} THEN <<"c", "s", "v">>
    ELSE IF format_type \in {<<"E", "x", "c", "e", "l">>, <<"E", "X", "C", "E", "L">>}
    THEN <<"x", "l", "s", "x">>
    ELSE <<"j", "s", "o", "n">>

\* C15: a call of export_data with a supported format (CSV, Excel or JSON
\* in any letter case) returns the location "<export directory>/<file
\* name>.<extension>", the extension being csv, xlsx or json.
\* (fails on the code: an Excel export is named <file name>.excel)
C15_LocationHasExtension ==
    (pc = "exported" /\ input.format_type \in C10_Supported) =>
        /\ ~output.raised
        /\ output.value =
               <<"d", "a", "t", "a", "/", "e", "x", "p", "o", "r", "t", "s", "/">>
                   \o input.filename \o <<".">> \o C15_Extension(input.format_type)

(***************************************************************************)
(* C16.                                                                    *)
(***************************************************************************)
\* the calls whose record had at least one line item
C16_CallsWithItems ==
    {i \in DOMAIN calls : dict_get(calls[i].invoice_data, "line_items", << >>) # << >>}
C16_LastWithItems ==
    CHOOSE i \in C16_CallsWithItems : \A j \in C16_CallsWithItems : j <= i

\* C16: after any sequence of process_invoice_data calls on one
\* DataProcessor the stored table is the frame returned by the latest call
\* whose record had a line item (nothing is stored before the first such
\* call): such a call replaces the stored rows, a call without line items
\* leaves them, and get_summary_statistics then reports the row count and
\* the total of that latest frame.
C16_StoredIsLatestNonEmpty ==
    /\ dp_processed_data =
           IF C16_CallsWithItems = {} THEN NoFrame
           ELSE calls[C16_LastWithItems].returned
    /\ (pc = "summarized" /\ C16_CallsWithItems # {}) =>
           /\ output.total_items = Len(calls[C16_LastWithItems].returned)
           /\ output.total_amount = C2_Total(calls[C16_LastWithItems].returned)

\* C16 witness: the records of DocumentA (two items), DocumentB (one item)
\* and DocumentEmpty were passed in this order; the stored table is the
\* one row of DocumentB and the statistics count one item
C16_Witness ==
    /\ pc = "summarized"
    /\ Len(calls) = 3
    /\ Len(calls[1].returned) = 2
    /\ Len(calls[2].returned) = 1
    /\ calls[3].invoice_data = _extract_invoice_data(DocumentEmpty)
    /\ calls[3].returned = << >>
    /\ dp_processed_data = calls[2].returned
    /\ Len(dp_processed_data) = 1
    /\ output.total_items = 1
====
